---- MODULE Spec2Model ----
(***************************************************************************)
(* A model of the defense dashboard's data pipeline:                       *)
(*   - the source adapters, REGISTRY and load_selected of data_sources.py  *)
(*   - fetch_omb_table_32, pick_defense_series and the UN peacekeeping     *)
(*     Top-N block of app_readiness_dashboard.py                           *)
(* A pandas DataFrame is a record [cols, rows]: the set of its column      *)
(* names and the sequence of its rows.  A cell of a table is a record      *)
(* [k, n]: k says what kind of thing the cell holds, n is its number.      *)
(***************************************************************************)
EXTENDS Integers, Sequences, FiniteSets, TLC

(* ------------------------------------------------------------------ *)
(* Bounds of the model                                                  *)
(* ------------------------------------------------------------------ *)
\* longest list of source names handed to load_selected
MaxNames == 3
\* most records / CSV rows in one upstream response
MaxRecs == 2
\* number of fiscal years the USAspending adapter iterates over
NumFY == 2
\* most data rows of the OMB sheet
MaxRows == 3
\* most rows of a combined table handed to the Top-N block
MaxDfRows == 3
\* renders of the page in one behaviour
MaxRenders == 2
\* the last tick of the clock
MaxClock == 3
\* columns of an uploaded deployments file
MaxCols == 3

(* ------------------------------------------------------------------ *)
(* Cells                                                                *)
(* ------------------------------------------------------------------ *)
\* an integer-valued number (2020, "2020", 2020.0)
Num(n) == [k |-> "num", n |-> n]
\* a missing value: None, NaN, pd.NA
Null == [k |-> "null", n |-> 0]
\* a number that is not a whole number (2020.5, "2020.5")
Frac == [k |-> "frac", n |-> 0]
\* text that is not a number: Text(0) is "n/a", Text(1), Text(2) are the
\* entity names "A" and "B"
Text(n) == [k |-> "text", n |-> n]

IsNull(c) == c.k = "null"

\* pd.to_numeric(column, errors="coerce"), cell by cell: what does not parse
\* as a number becomes NaN
ToNumeric(c) == IF c.k = "text" THEN Null ELSE c

\* column.astype("Int64") fails with a TypeError when a value of the column
\* is not a whole number ("cannot safely cast non-equivalent float64 to int64")
AstypeInt64Fails(cells) == \E c \in cells : c.k = "frac"

(* ------------------------------------------------------------------ *)
(* Frames                                                               *)
(* ------------------------------------------------------------------ *)
CanonicalCols == {"source", "country", "year", "metric", "value", "unit"}

\* pd.DataFrame(): no rows and no columns
EmptyFrame == [cols |-> {}, rows |-> <<>>]

Row(src, country, year, metric, value, unit) ==
    [source |-> src, country |-> country, year |-> year,
     metric |-> metric, value |-> value, unit |-> unit]

\* pd.DataFrame(rows) of a list of row dicts: no rows, no columns
FrameOfRows(rows) ==
    IF rows = <<>> THEN EmptyFrame ELSE [cols |-> CanonicalCols, rows |-> rows]

\* what a call of an adapter comes to: it raised, or it returned df
Returned(df) == [raised |-> FALSE, df |-> df]
Raised == [raised |-> TRUE, df |-> EmptyFrame]

\* df.dropna(subset=["value"]) on the rows
DropNullValue(rows) == SelectSeq(rows, LAMBDA r : ~IsNull(r.value))

\* df["year"] = pd.to_numeric(df["year"], errors="coerce") on the rows
CoerceYear(rows) ==
    [i \in 1..Len(rows) |-> [rows[i] EXCEPT !.year = ToNumeric(rows[i].year)]]

YearCells(rows) == {ToNumeric(rows[i].year) : i \in 1..Len(rows)}

\* the sequences over S of length at most n
SeqUpTo(S, n) == UNION {[1..m -> S] : m \in 0..n}

(* ------------------------------------------------------------------ *)
(* World Bank                                                           *)
(* ------------------------------------------------------------------ *)
\* The upstream answers to the GET of _wb_indicator_to_df:
\*   neterr  requests.get raised (connection error, timeout)
\*   status  a non-2xx status: raise_for_status raises
\*   badjson the body is not JSON: r.json() raises
\*   shape   JSON that is not a list of two elements, the second a list
\*   ok      [meta, recs]
\* A record holds the cells of its "value", "date" and country.value keys.
WbRecs ==
    { [value |-> Num(1), date |-> Num(2019), country |-> Text(1)],
      [value |-> Num(2), date |-> Num(2020), country |-> Text(2)],
      [value |-> Null,   date |-> Text(0),   country |-> Text(1)],
      [value |-> Num(1), date |-> Text(0),   country |-> Text(1)],
      [value |-> Num(2), date |-> Null,      country |-> Null] }

WbResponses ==
    { [kind |-> k, recs |-> <<>>] : k \in {"neterr", "status", "badjson", "shape"} }
    \cup { [kind |-> "ok", recs |-> rs] : rs \in SeqUpTo(WbRecs, MaxRecs) }

\* int(rec.get("date", 0) or 0) and float(val) raise ValueError on text
WbRecRaises(rec) ==
    ~IsNull(rec.value) /\ (rec.date.k = "text" \/ rec.value.k = "text")

\* the row appended for one record whose value is not None
WbRow(rec, metric, unit) ==
    Row("World Bank", rec.country,
        IF IsNull(rec.date) THEN Num(0) ELSE rec.date,
        metric, rec.value, unit)

WbIndicatorToDf(resp, metric, unit) ==
    IF resp.kind \in {"neterr", "status", "badjson"} THEN Returned(EmptyFrame)
    ELSE IF resp.kind = "shape" THEN Returned(EmptyFrame)
    ELSE IF \E i \in 1..Len(resp.recs) : WbRecRaises(resp.recs[i]) THEN Raised
    ELSE LET kept == SelectSeq(resp.recs, LAMBDA rec : ~IsNull(rec.value))
             rows == [i \in 1..Len(kept) |-> WbRow(kept[i], metric, unit)]
             df   == FrameOfRows(rows)
         IN  IF df.rows = <<>> THEN Returned(df)
             ELSE IF AstypeInt64Fails(YearCells(df.rows)) THEN Raised
             ELSE Returned([df EXCEPT !.rows = CoerceYear(DropNullValue(df.rows))])

wb_milex_percent_gdp(resp) ==
    WbIndicatorToDf(resp, "Military Expenditure (% GDP)", "percent")
wb_milex_current_usd(resp) ==
    WbIndicatorToDf(resp, "Military Expenditure (current US$)", "USD")
wb_armed_forces_total(resp) ==
    WbIndicatorToDf(resp, "Armed Forces Personnel (total)", "persons")
wb_armed_forces_pct_labor(resp) ==
    WbIndicatorToDf(resp, "Armed Forces Personnel (% labor force)", "percent")

(* ------------------------------------------------------------------ *)
(* CSV files                                                            *)
(* ------------------------------------------------------------------ *)
\* str.lower() on the column names the modelled files use
Lower(h) ==
    CASE h = "Entity" -> "entity"
      [] h = "Country" -> "country"
      [] h = "Year" -> "year"
      [] h = "Date" -> "date"
      [] h = "Troops" -> "troops"
      [] h = "Police_Troops" -> "police_troops"
      [] h = "Military-Personnel" -> "military-personnel"
      [] h = "Value" -> "value"
      [] h = "COUNTRY" -> "country"
      [] h = "Location" -> "location"
      [] h = "Country/Territory" -> "country/territory"
      [] h = "Total" -> "total"
      [] OTHER -> h

\* ("country" in c), ("troop" in c), ("police" in c) on lower-cased names
HasCountry(lc) == lc \in {"country", "contributing_country"}
HasTroop(lc) == lc \in {"troops", "troops_total", "police_troops"}
HasPolice(lc) == lc \in {"police_troops"}

Min(S) == CHOOSE x \in S : \A y \in S : x <= y
Max(S) == CHOOSE x \in S : \A y \in S : x >= y

\* {c.lower(): c for c in df.columns}.get(key): the last column whose
\* lower-cased name is key, 0 for None
ColsGet(cols, key) ==
    LET hits == {i \in 1..Len(cols) : Lower(cols[i]) = key}
    IN  IF hits = {} THEN 0 ELSE Max(hits)

\* position of the column named exactly name, 0 when there is none
ColNamed(cols, name) ==
    LET hits == {i \in 1..Len(cols) : cols[i] = name}
    IN  IF hits = {} THEN 0 ELSE Min(hits)

(* ------------------------------------------------------------------ *)
(* Our World in Data                                                    *)
(* ------------------------------------------------------------------ *)
OwidLayouts ==
    { <<"Entity", "Year", "military-personnel">>,
      <<"country", "year", "Military-Personnel">>,
      <<"Entity", "Year", "military-expenditure-share-gdp">>,
      <<"Entity", "Year", "Value">> }

OwidCsvRows ==
    { <<Text(1), Num(2020), Num(1)>>,
      <<Text(1), Num(2019), Text(0)>>,
      <<Text(2), Text(0), Num(2)>>,
      <<Text(2), Frac, Num(2)>> }

\* kind neterr: pd.read_csv raised (unreachable, not found, not a CSV)
OwidResponses ==
    { [kind |-> "neterr", cols |-> <<>>, rows |-> <<>>] }
    \cup { [kind |-> "ok", cols |-> c, rows |-> rs] :
             c \in OwidLayouts, rs \in SeqUpTo(OwidCsvRows, MaxRecs) }

OwidGrapherCsvToDf(resp, value_col, metric, unit) ==
    IF resp.kind = "neterr" THEN Returned(EmptyFrame)
    ELSE
    LET cols == resp.cols
        ent == IF ColsGet(cols, "entity") # 0 THEN ColsGet(cols, "entity")
               ELSE IF ColsGet(cols, "country") # 0 THEN ColsGet(cols, "country")
               ELSE ColNamed(cols, "Entity")
        yr  == IF ColsGet(cols, "year") # 0 THEN ColsGet(cols, "year")
               ELSE ColNamed(cols, "Year")
        val == IF ColNamed(cols, value_col) # 0 THEN ColNamed(cols, value_col)
               ELSE ColsGet(cols, Lower(value_col))
    IN  IF ent = 0 \/ yr = 0 \/ val = 0 THEN Returned(EmptyFrame)
        ELSE
        LET out == [i \in 1..Len(resp.rows) |->
                      Row("Our World in Data", resp.rows[i][ent], resp.rows[i][yr],
                          metric, ToNumeric(resp.rows[i][val]), unit)]
        IN  IF AstypeInt64Fails(YearCells(out)) THEN Raised
            ELSE Returned([cols |-> CanonicalCols,
                           rows |-> DropNullValue(CoerceYear(out))])

owid_military_personnel(resp) ==
    OwidGrapherCsvToDf(resp, "military-personnel",
                       "Military Personnel (OWID)", "persons")
owid_mil_exp_share_gdp(resp) ==
    OwidGrapherCsvToDf(resp, "military-expenditure-share-gdp",
                       "Military Expenditure (% GDP, OWID)", "percent")

(* ------------------------------------------------------------------ *)
(* UN peacekeeping                                                      *)
(* ------------------------------------------------------------------ *)
UnLayouts ==
    { <<"Country", "Year", "Troops">>,
      <<"contributing_country", "year", "troops_total">>,
      <<"Country", "Year", "Police_Troops">>,
      <<"Country", "Date", "Troops">> }

UnCsvRows ==
    { <<Text(1), Num(2020), Num(1)>>,
      <<Text(1), Num(2020), Num(2)>>,
      <<Text(1), Num(2019), Text(0)>>,
      <<Text(2), Frac, Num(1)>>,
      <<Text(2), Text(0), Num(2)>>,
      <<Text(1), Null, Num(1)>> }

UnResponses ==
    { [kind |-> "neterr", cols |-> <<>>, rows |-> <<>>] }
    \cup { [kind |-> "ok", cols |-> c, rows |-> rs] :
             c \in UnLayouts, rs \in SeqUpTo(UnCsvRows, MaxRecs) }

\* the order groupby sorts its keys in: numbers by value, then text
CellRank(c) ==
    CASE c.k = "num" -> 2 * c.n
      [] c.k = "frac" -> 2 * 2020 + 1
      [] c.k = "text" -> 10000 + c.n
      [] OTHER -> 20000

KeyLess(a, b) ==
    \/ CellRank(a[1]) < CellRank(b[1])
    \/ CellRank(a[1]) = CellRank(b[1]) /\ CellRank(a[2]) < CellRank(b[2])

RECURSIVE SortedKeys(_)
SortedKeys(S) ==
    IF S = {} THEN <<>>
    ELSE LET m == CHOOSE x \in S : \A y \in S \ {x} : KeyLess(x, y)
         IN  <<m>> \o SortedKeys(S \ {m})

RECURSIVE SumCells(_)
\* the sum of the numbers of a sequence of cells, NaN skipped
SumCells(cells) ==
    IF cells = <<>> THEN 0
    ELSE (IF Head(cells).k = "num" THEN Head(cells).n ELSE 0) + SumCells(Tail(cells))

\* .sum(min_count=1): NaN when the group has no number at all
SumMinCount1(cells) ==
    IF \A i \in 1..Len(cells) : cells[i].k # "num" THEN Null
    ELSE Num(SumCells(cells))

unpk_troop_contributors(resp) ==
    IF resp.kind = "neterr" THEN Returned(EmptyFrame)
    ELSE
    LET cols == resp.cols
        cc == {i \in 1..Len(cols) : HasCountry(Lower(cols[i]))}
        yc == {i \in 1..Len(cols) : Lower(cols[i]) = "year"}
        tc == {i \in 1..Len(cols) : HasTroop(Lower(cols[i])) /\ ~HasPolice(Lower(cols[i]))}
    IN  IF cc = {} \/ yc = {} \/ tc = {} THEN Returned(EmptyFrame)
        ELSE
        LET country_col == Min(cc)
            year_col == Min(yc)
            troop_col == Min(tc)
            \* groupby drops the rows whose key is null
            keyed == SelectSeq(resp.rows,
                       LAMBDA r : ~IsNull(r[year_col]) /\ ~IsNull(r[country_col]))
            keys == SortedKeys({<<keyed[i][country_col], keyed[i][year_col]>> :
                                   i \in 1..Len(keyed)})
            troops(key) ==
                LET grp == SelectSeq(keyed, LAMBDA r :
                              <<r[country_col], r[year_col]>> = key)
                IN  SumMinCount1([i \in 1..Len(grp) |-> ToNumeric(grp[i][troop_col])])
        IN  Returned([cols |-> CanonicalCols,
                      rows |-> [i \in 1..Len(keys) |->
                                  Row("UN Peacekeeping", keys[i][1], keys[i][2],
                                      "Troops contributed to UN PKO",
                                      troops(keys[i]), "personnel")]])

(* ------------------------------------------------------------------ *)
(* USAspending                                                          *)
(* ------------------------------------------------------------------ *)
StartFY == 2016

\* The answer to the GET of one fiscal year:
\*   fail   the request, the status check or the JSON decoding raised
\*   nodod  no record of the results has toptier_code "097"
\*   dod    the DoD record; obl is its "obligations": a number, None (null),
\*          NaN (nan) or text
UsaYearResponses ==
    { [kind |-> "fail", obl |-> Null], [kind |-> "nodod", obl |-> Null] }
    \cup { [kind |-> "dod", obl |-> o] :
             o \in {Num(1), Null, [k |-> "nan", n |-> 0], Text(0)} }

UsaResponses == [1..NumFY -> UsaYearResponses]

\* does the fiscal year's answer append a row
UsaYearHasRow(yr) == yr.kind = "dod" /\ yr.obl.k # "text"

\* float(dod.get("obligations") or 0.0)
UsaValue(obl) ==
    CASE obl.k = "null" -> Num(0)
      [] obl.k = "nan" -> Null
      [] OTHER -> obl

usaspending_dod_obligations(resp) ==
    LET fys == SelectSeq([i \in 1..NumFY |-> i], LAMBDA i : UsaYearHasRow(resp[i]))
        rows == [j \in 1..Len(fys) |->
                   Row("USAspending", Text(3), Num(StartFY + fys[j] - 1),
                       "DoD Obligations", UsaValue(resp[fys[j]].obl), "USD")]
    IN  Returned(FrameOfRows(rows))

(* ------------------------------------------------------------------ *)
(* Registry                                                             *)
(* ------------------------------------------------------------------ *)
REGISTRY ==
    [ n \in { "World Bank: mil exp %GDP", "World Bank: mil exp (USD)",
              "World Bank: armed forces total", "World Bank: armed forces % labor",
              "UN Peacekeeping: contributors", "USAspending: DoD obligations",
              "OWID: military personnel", "OWID: mil exp %GDP" } |->
      CASE n = "World Bank: mil exp %GDP" -> "wb_milex_percent_gdp"
        [] n = "World Bank: mil exp (USD)" -> "wb_milex_current_usd"
        [] n = "World Bank: armed forces total" -> "wb_armed_forces_total"
        [] n = "World Bank: armed forces % labor" -> "wb_armed_forces_pct_labor"
        [] n = "UN Peacekeeping: contributors" -> "unpk_troop_contributors"
        [] n = "USAspending: DoD obligations" -> "usaspending_dod_obligations"
        [] n = "OWID: military personnel" -> "owid_military_personnel"
        [] n = "OWID: mil exp %GDP" -> "owid_mil_exp_share_gdp" ]

\* a lookup that falls back to an adapter for a name it does not know
RegistryGetWithDefault(name) ==
    IF name \in DOMAIN REGISTRY THEN REGISTRY[name] ELSE "wb_milex_percent_gdp"

\* REGISTRY.get(name): the adapter, or "None"
RegistryGet(name) == IF name \in DOMAIN REGISTRY THEN REGISTRY[name] ELSE "None"

\* what the upstream of an adapter can answer
Responses(fn) ==
    CASE fn \in {"wb_milex_percent_gdp", "wb_milex_current_usd",
                 "wb_armed_forces_total", "wb_armed_forces_pct_labor"} -> WbResponses
      [] fn = "unpk_troop_contributors" -> UnResponses
      [] fn = "usaspending_dod_obligations" -> UsaResponses
      [] fn \in {"owid_military_personnel", "owid_mil_exp_share_gdp"} -> OwidResponses

\* fn(), its upstream answering resp
Call(fn, resp) ==
    CASE fn = "wb_milex_percent_gdp" -> wb_milex_percent_gdp(resp)
      [] fn = "wb_milex_current_usd" -> wb_milex_current_usd(resp)
      [] fn = "wb_armed_forces_total" -> wb_armed_forces_total(resp)
      [] fn = "wb_armed_forces_pct_labor" -> wb_armed_forces_pct_labor(resp)
      [] fn = "unpk_troop_contributors" -> unpk_troop_contributors(resp)
      [] fn = "usaspending_dod_obligations" -> usaspending_dod_obligations(resp)
      [] fn = "owid_military_personnel" -> owid_military_personnel(resp)
      [] fn = "owid_mil_exp_share_gdp" -> owid_mil_exp_share_gdp(resp)

(* ------------------------------------------------------------------ *)
(* load_selected                                                        *)
(* ------------------------------------------------------------------ *)
VARIABLES
    pc,        \* where the modelled code stands
    sources,   \* load_selected: its argument
    pos,       \* load_selected: index in sources of the name the loop is at
    frames,    \* load_selected: the frames collected so far
    trace,     \* the adapter calls load_selected has made: <<name, outcome>>, ...
    result     \* what load_selected came to: Returned(df) or Raised

\* the names the selection lists are drawn from: one adapter of each kind,
\* and a name that is no key of REGISTRY
SelNames ==
    { "World Bank: mil exp %GDP", "UN Peacekeeping: contributors",
      "USAspending: DoD obligations", "OWID: military personnel",
      "unknown-name" }

\* The upstream answers load_selected is run against: for each adapter, an
\* answer of each kind it tells apart (unreachable, wrong shape, no rows, rows,
\* repeated rows, rows with a null value, a year that is no whole number, a
\* record the adapter raises on).
WbSamples ==
    { [kind |-> "neterr", recs |-> <<>>],
      [kind |-> "shape", recs |-> <<>>],
      [kind |-> "ok", recs |-> <<>>],
      [kind |-> "ok", recs |-> << [value |-> Num(1), date |-> Num(2019), country |-> Text(1)],
                                  [value |-> Num(2), date |-> Num(2020), country |-> Text(2)] >>],
      [kind |-> "ok", recs |-> << [value |-> Num(1), date |-> Num(2019), country |-> Text(1)],
                                  [value |-> Num(1), date |-> Num(2019), country |-> Text(1)] >>],
      [kind |-> "ok", recs |-> << [value |-> Null, date |-> Text(0), country |-> Text(1)],
                                  [value |-> Num(2), date |-> Null, country |-> Null] >>],
      [kind |-> "ok", recs |-> << [value |-> Num(1), date |-> Num(2019), country |-> Text(1)],
                                  [value |-> Num(1), date |-> Text(0), country |-> Text(1)] >>] }

UnSamples ==
    { [kind |-> "neterr", cols |-> <<>>, rows |-> <<>>],
      [kind |-> "ok", cols |-> <<"Country", "Year", "Police_Troops">>,
       rows |-> << <<Text(1), Num(2020), Num(1)>> >>],
      [kind |-> "ok", cols |-> <<"Country", "Year", "Troops">>, rows |-> <<>>],
      [kind |-> "ok", cols |-> <<"Country", "Year", "Troops">>,
       rows |-> << <<Text(1), Num(2020), Num(1)>>, <<Text(1), Num(2020), Num(2)>> >>],
      [kind |-> "ok", cols |-> <<"Country", "Year", "Troops">>,
       rows |-> << <<Text(1), Num(2020), Num(1)>>, <<Text(1), Num(2019), Text(0)>> >>],
      [kind |-> "ok", cols |-> <<"contributing_country", "year", "troops_total">>,
       rows |-> << <<Text(2), Text(0), Num(2)>>, <<Text(1), Num(2020), Num(1)>> >>],
      [kind |-> "ok", cols |-> <<"Country", "Year", "Troops">>,
       rows |-> << <<Text(2), Frac, Num(1)>> >>] }

UsaSamples ==
    { [i \in 1..NumFY |-> [kind |-> "fail", obl |-> Null]],
      [i \in 1..NumFY |-> [kind |-> "dod", obl |-> Num(1)]],
      [i \in 1..NumFY |-> IF i = 1 THEN [kind |-> "dod", obl |-> [k |-> "nan", n |-> 0]]
                          ELSE [kind |-> "dod", obl |-> Null]],
      [i \in 1..NumFY |-> IF i = 1 THEN [kind |-> "nodod", obl |-> Null]
                          ELSE [kind |-> "dod", obl |-> Text(0)]] }

OwidSamples ==
    { [kind |-> "neterr", cols |-> <<>>, rows |-> <<>>],
      [kind |-> "ok", cols |-> <<"Entity", "Year", "Value">>,
       rows |-> << <<Text(1), Num(2020), Num(1)>> >>],
      [kind |-> "ok", cols |-> <<"Entity", "Year", "military-personnel">>, rows |-> <<>>],
      [kind |-> "ok", cols |-> <<"Entity", "Year", "military-personnel">>,
       rows |-> << <<Text(1), Num(2020), Num(1)>>, <<Text(1), Num(2019), Text(0)>> >>],
      [kind |-> "ok", cols |-> <<"country", "year", "Military-Personnel">>,
       rows |-> << <<Text(2), Text(0), Num(2)>>, <<Text(2), Text(0), Num(2)>> >>],
      [kind |-> "ok", cols |-> <<"Entity", "Year", "military-personnel">>,
       rows |-> << <<Text(2), Frac, Num(2)>> >>] }

Samples(fn) ==
    CASE fn \in {"wb_milex_percent_gdp", "wb_milex_current_usd",
                 "wb_armed_forces_total", "wb_armed_forces_pct_labor"} -> WbSamples
      [] fn = "unpk_troop_contributors" -> UnSamples
      [] fn = "usaspending_dod_obligations" -> UsaSamples
      [] fn \in {"owid_military_personnel", "owid_mil_exp_share_gdp"} -> OwidSamples

\* a concatenation that puts the later frames first
RECURSIVE ConcatRowsLastFirst(_)
ConcatRowsLastFirst(fs) ==
    IF fs = <<>> THEN <<>> ELSE ConcatRowsLastFirst(Tail(fs)) \o Head(fs).rows

\* pd.concat(frames, ignore_index=True)
RECURSIVE ConcatRows(_)
ConcatRows(fs) ==
    IF fs = <<>> THEN <<>> ELSE Head(fs).rows \o ConcatRows(Tail(fs))

Concat(fs) ==
    [cols |-> UNION {fs[i].cols : i \in 1..Len(fs)}, rows |-> ConcatRows(fs)]

\* lines 296-303 of load_selected: what it returns for the frames collected
LoadResult(fs) ==
    IF fs = <<>> THEN Returned([cols |-> CanonicalCols, rows |-> <<>>])
    ELSE LET df == Concat(fs)
         IN  IF "value" \notin df.cols THEN Raised   \* dropna: KeyError
             ELSE LET kept == DropNullValue(df.rows)
                  IN  IF "year" \notin df.cols THEN Returned([df EXCEPT !.rows = kept])
                      ELSE IF AstypeInt64Fails(YearCells(kept)) THEN Raised
                      ELSE Returned([df EXCEPT !.rows = CoerceYear(kept)])

\* frames.append(fn()) inside try/except: a raising adapter appends nothing
AppendOutcome(fs, out) == IF out.raised THEN fs ELSE Append(fs, out.df)

LoadInit ==
    /\ pc = "loop"
    /\ sources \in SeqUpTo(SelNames, MaxNames)
    /\ pos = 1
    /\ frames = <<>>
    /\ trace = <<>>
    /\ result = Returned(EmptyFrame)

\* one turn of the loop on a name REGISTRY does not know
LoadSkip ==
    /\ pc = "loop" /\ pos <= Len(sources)
    /\ RegistryGet(sources[pos]) = "None"
    /\ pos' = pos + 1
    /\ UNCHANGED <<pc, sources, frames, trace, result>>

\* one turn of the loop on a known name: its adapter is called and reaches its
\* upstream (the call is not answered from st.cache_data)
LoadCall ==
    /\ pc = "loop" /\ pos <= Len(sources)
    /\ RegistryGet(sources[pos]) # "None"
    /\ \E resp \in Samples(RegistryGet(sources[pos])) :
          LET out == Call(RegistryGet(sources[pos]), resp)
          IN  /\ frames' = AppendOutcome(frames, out)
              /\ trace' = Append(trace, [name |-> sources[pos], out |-> out])
    /\ pos' = pos + 1
    /\ UNCHANGED <<pc, sources, result>>

\* after the loop
LoadFinish ==
    /\ pc = "loop" /\ pos > Len(sources)
    /\ result' = LoadResult(frames)
    /\ pc' = "done"
    /\ UNCHANGED <<sources, pos, frames, trace>>

(* ------------------------------------------------------------------ *)
(* Strings of the OMB sheet: sequences of characters                     *)
(* ------------------------------------------------------------------ *)
IsSpace(c) == c = " "
IsDigit(c) == c \in {"0", "1", "2", "3", "4", "5", "6", "7", "8", "9"}

RECURSIVE LStrip(_)
LStrip(s) == IF s # <<>> /\ IsSpace(Head(s)) THEN LStrip(Tail(s)) ELSE s

RECURSIVE RStrip(_)
RStrip(s) ==
    IF s # <<>> /\ IsSpace(s[Len(s)]) THEN RStrip(SubSeq(s, 1, Len(s) - 1)) ELSE s

\* str.strip()
Strip(s) == RStrip(LStrip(s))

\* str.startswith(p)
StartsWith(s, p) == Len(s) >= Len(p) /\ SubSeq(s, 1, Len(p)) = p

LowerChar(c) ==
    CASE c = "F" -> "f"
      [] c = "T" -> "t"
      [] c = "D" -> "d"
      [] c = "O" -> "o"
      [] OTHER -> c

\* str.lower()
LowerStr(s) == [i \in 1..Len(s) |-> LowerChar(s[i])]

RECURSIVE DropDigits(_)
DropDigits(s) == IF s # <<>> /\ IsDigit(Head(s)) THEN DropDigits(Tail(s)) ELSE s

\* str.replace(r"^\s*\d+\s+", "", regex=True): a leading numeric code and the
\* blanks around it are cut; a string without such a lead is left as it is
StripLeadingCode(s) ==
    LET a == LStrip(s)
        b == DropDigits(a)
    IN  IF Len(b) < Len(a) /\ b # <<>> /\ IsSpace(Head(b)) THEN LStrip(b) ELSE s

(* ------------------------------------------------------------------ *)
(* fetch_omb_table_32                                                   *)
(* ------------------------------------------------------------------ *)
\* A sheet is the sequence of its rows; a row is [c0, ys]: the string of its
\* first column (NaNLabel for an empty cell) and the cells of the other two.
NaNLabel == <<"NaN">>

HeaderLabel ==
    <<"F","u","n","c","t","i","o","n"," ","a","n","d"," ",
      "s","u","b","f","u","n","c","t","i","o","n">>
HeaderPrefix == LowerStr(HeaderLabel)

\* rows scanned for the header, and the row assumed when none is found
HeaderScanRows == 20
HeaderFallbackRow == 2

\* str(cell) of a first-column cell
StrOfLabel(c0) == IF c0 = NaNLabel THEN <<"n", "a", "n">> ELSE c0

\* index (from 0) of the header row
HeaderRowIdx(raw) ==
    LET n == IF Len(raw) < HeaderScanRows THEN Len(raw) ELSE HeaderScanRows
        hits == {i \in 0..(n - 1) :
                    StartsWith(LowerStr(Strip(StrOfLabel(raw[i + 1].c0))), HeaderPrefix)}
    IN  IF hits = {} THEN HeaderFallbackRow ELSE Min(hits)

\* re.fullmatch(r"\d{4}", str(c)) on a header cell
IsYearHeader(c) == c.k = "num" /\ c.n >= 1000 /\ c.n <= 9999

TidyCols == {"line", "label", "year", "outlays"}

\* melt: for each year column in column order, every kept row in row order
RECURSIVE Melt(_, _, _)
Melt(rows, hdr, ycols) ==
    IF ycols = <<>> THEN <<>>
    ELSE [i \in 1..Len(rows) |->
            [line |-> IF rows[i].c0 = NaNLabel THEN <<>> ELSE rows[i].c0,
             label |-> StripLeadingCode(IF rows[i].c0 = NaNLabel THEN <<>> ELSE rows[i].c0),
             year |-> hdr[Head(ycols)],
             outlays |-> ToNumeric(rows[i].ys[Head(ycols)])]]
         \o Melt(rows, hdr, Tail(ycols))

\* The upstream answers: neterr (requests.get raised), status (non-2xx),
\* notxls (the body is no workbook pandas can read), ok (a sheet)
fetch_omb_table_32(resp) ==
    IF resp.kind \in {"neterr", "status", "notxls"} THEN Raised
    ELSE
    LET raw == resp.sheet
        h == HeaderRowIdx(raw)
    IN  IF h + 1 > Len(raw) THEN Raised      \* raw.iloc[h]: IndexError
        ELSE
        LET hdr == raw[h + 1].ys
            body == SubSeq(raw, h + 2, Len(raw))
            ycols == SelectSeq([i \in 1..Len(hdr) |-> i], LAMBDA i : IsYearHeader(hdr[i]))
            \* dropna(how="all", subset=year_cols)
            kept == SelectSeq(body, LAMBDA r :
                       \E i \in 1..Len(ycols) : ~IsNull(r.ys[ycols[i]]))
        IN  Returned([cols |-> TidyCols, rows |-> Melt(kept, hdr, ycols)])

(* ------------------------------------------------------------------ *)
(* pick_defense_series                                                  *)
(* ------------------------------------------------------------------ *)
Code050 == <<"0", "5", "0">>
Code051 == <<"0", "5", "1">>
Code052 == <<"0", "5", "2">>

\* a match on the code alone, without the blank that ends it
LineMatchesNoSeparator(line, which) == StartsWith(Strip(line), which)

\* m = tidy["line"].str.strip().str.startswith(which + " ")
LineMatches(line, which) == StartsWith(Strip(line), which \o <<" ">>)

RECURSIVE SortedYears(_)
SortedYears(S) ==
    IF S = {} THEN <<>>
    ELSE LET m == CHOOSE x \in S : \A y \in S : CellRank(x) <= CellRank(y)
         IN  <<m>> \o SortedYears(S \ {m})

\* groupby("year")["outlays"].sum(): NaN counts as nothing
GroupSum(rows, year) ==
    SumCells([i \in 1..Len(SelectSeq(rows, LAMBDA r : r.year = year)) |->
                 SelectSeq(rows, LAMBDA r : r.year = year)[i].outlays])

pick_defense_series(tidy, which) ==
    IF which \notin {Code050, Code051} THEN Raised    \* the assert
    ELSE
    LET m == SelectSeq(tidy.rows, LAMBDA r : LineMatches(r.line, which))
        years == SortedYears({m[i].year : i \in 1..Len(m)} \ {Null})
    IN  Returned([cols |-> {"year", "outlays", "series"},
                  rows |-> [i \in 1..Len(years) |->
                              [year |-> years[i],
                               outlays |-> Num(GroupSum(m, years[i])),
                               series |-> <<"National defense (", which, "*)">>]]])

\* The sheets the OMB download is modelled with
TitleRow == [c0 |-> <<"T", "a", "b", "l", "e">>, ys |-> <<Null, Null>>]

OmbHeaderRows ==
    { [c0 |-> HeaderLabel, ys |-> <<Num(2019), Num(2020)>>],
      [c0 |-> <<" ">> \o LowerStr(HeaderLabel), ys |-> <<Num(2020), Num(2019)>>],
      [c0 |-> HeaderLabel, ys |-> <<Num(2019), Text(0)>>] }

\* data rows: lines "051 D", " 051 I", "052 O", "0510 X", "050 N" with their
\* two cells
OmbDataRows ==
    { [c0 |-> <<"0", "5", "1", " ", "D">>, ys |-> <<Num(100), Num(50)>>],
      [c0 |-> <<" ", "0", "5", "1", " ", "I">>, ys |-> <<Num(50), Null>>],
      [c0 |-> <<"0", "5", "2", " ", "O">>, ys |-> <<Num(50), Null>>],
      [c0 |-> <<"0", "5", "1", "0", " ", "X">>, ys |-> <<Num(100), Num(50)>>],
      [c0 |-> <<"0", "5", "0", " ", "N">>, ys |-> <<Num(100), Num(50)>>],
      [c0 |-> <<"0", "5", "1", " ", "D">>, ys |-> <<Null, Null>>],
      [c0 |-> NaNLabel, ys |-> <<Num(50), Null>>] }

OmbSheets ==
    { <<h>> \o d : h \in OmbHeaderRows, d \in SeqUpTo(OmbDataRows, MaxRows) }
    \cup { <<TitleRow, h>> \o d : h \in {[c0 |-> HeaderLabel, ys |-> <<Num(2019), Num(2020)>>]},
                                  d \in SeqUpTo(OmbDataRows, MaxRows) }
    \cup { <<TitleRow, TitleRow, [c0 |-> NaNLabel, ys |-> <<Num(2019), Num(2020)>>]>> \o d :
              d \in SeqUpTo(OmbDataRows, MaxRows) }
    \cup { <<TitleRow>>, <<>> }

OmbResponses ==
    { [kind |-> k, sheet |-> <<>>] : k \in {"neterr", "status", "notxls"} }
    \cup { [kind |-> "ok", sheet |-> sh] : sh \in OmbSheets }

(* ------------------------------------------------------------------ *)
(* The UN peacekeeping Top-N block                                      *)
(* ------------------------------------------------------------------ *)
SliderMin == 5
SliderMax == 30

UnpkMetric == "Troops contributed to UN PKO"

\* the indexes of S in the order nlargest returns them: largest value first,
\* among equal values the earlier row first
RECURSIVE LargestFirst(_, _)
LargestFirst(rows, S) ==
    IF S = {} THEN <<>>
    ELSE LET m == CHOOSE i \in S : \A j \in S :
                     \/ rows[i].value.n > rows[j].value.n
                     \/ rows[i].value.n = rows[j].value.n /\ i <= j
         IN  <<m>> \o LargestFirst(rows, S \ {m})

\* the orders sort_values("value", ascending=True) can leave the rows S in:
\* ascending by value; the default sort is not stable, equal values may come
\* out in any order
RECURSIVE AscendingOrders(_, _)
AscendingOrders(rows, S) ==
    IF S = {} THEN {<<>>}
    ELSE UNION { { <<rows[m]>> \o t : t \in AscendingOrders(rows, S \ {m}) } :
                 m \in {i \in S : \A j \in S : rows[i].value.n <= rows[j].value.n} }

\* the block without its guard on an empty selection: int() of the missing
\* latest year raises
TopNBlockUnguarded(df, top_n) ==
    LET unpk == SelectSeq(df.rows, LAMBDA r : r.metric = UnpkMetric)
        years == {unpk[i].year.n : i \in {j \in 1..Len(unpk) : ~IsNull(unpk[j].year)}}
    IN  IF years = {} THEN {[raised |-> TRUE, shown |-> FALSE, rows |-> <<>>]}
        ELSE
        LET latest == Max(years)
            cand == SelectSeq(unpk, LAMBDA r : r.year = Num(latest))
            order == LargestFirst(cand, 1..Len(cand))
            taken == {order[i] : i \in 1..(IF top_n < Len(order) THEN top_n ELSE Len(order))}
        IN  { [raised |-> FALSE, shown |-> TRUE, rows |-> t] :
                t \in AscendingOrders(cand, taken) }

\* Lines 94-103: the outcomes of the block for the combined table df and the
\* slider at top_n.  shown says whether the chart is drawn at all.
TopNBlock(df, top_n) ==
    LET unpk == SelectSeq(df.rows, LAMBDA r : r.metric = UnpkMetric)
        years == {unpk[i].year.n : i \in {j \in 1..Len(unpk) : ~IsNull(unpk[j].year)}}
    IN  IF unpk = <<>> THEN {[raised |-> FALSE, shown |-> FALSE, rows |-> <<>>]}
        ELSE IF years = {} THEN {[raised |-> TRUE, shown |-> FALSE, rows |-> <<>>]}  \* int(pd.NA)
        ELSE
        LET latest == Max(years)
            cand == SelectSeq(unpk, LAMBDA r : r.year = Num(latest))
            order == LargestFirst(cand, 1..Len(cand))
            taken == {order[i] : i \in 1..(IF top_n < Len(order) THEN top_n ELSE Len(order))}
        IN  { [raised |-> FALSE, shown |-> TRUE, rows |-> t] :
                t \in AscendingOrders(cand, taken) }

\* rows a table returned by load_selected can hold
DfRows ==
    { Row("UN Peacekeeping", Text(1), Num(2020), UnpkMetric, Num(1), "personnel"),
      Row("UN Peacekeeping", Text(2), Num(2020), UnpkMetric, Num(2), "personnel"),
      Row("UN Peacekeeping", Text(3), Num(2020), UnpkMetric, Num(2), "personnel"),
      Row("UN Peacekeeping", Text(1), Num(2019), UnpkMetric, Num(3), "personnel"),
      Row("UN Peacekeeping", Text(2), Null, UnpkMetric, Num(1), "personnel"),
      Row("USAspending", Text(3), Num(2016), "DoD Obligations", Num(1), "USD") }

\* tables of one more latest-year row than the slider's smallest value, so that
\* nlargest has a row to leave out: the values of their rows, in row order
LongValues ==
    { <<1, 2, 3, 4, 5, 6>>, <<6, 5, 4, 3, 2, 1>>, <<3, 1, 2, 1, 3, 2>>,
      <<2, 2, 1, 2, 2, 2>>, <<1, 1, 2, 1, 1, 1>> }

LongDfs ==
    { [cols |-> CanonicalCols,
       rows |-> [i \in 1..(SliderMin + 1) |->
                    Row("UN Peacekeeping", Text(i), Num(2020), UnpkMetric,
                        Num(vs[i]), "personnel")]] : vs \in LongValues }

Dfs ==
    { [cols |-> CanonicalCols, rows |-> rs] : rs \in SeqUpTo(DfRows, MaxDfRows) }
    \cup LongDfs

(* ------------------------------------------------------------------ *)
(* The three specifications                                             *)
(* ------------------------------------------------------------------ *)
VARIABLES
    call,      \* the adapter call made last: [fn, resp, out]
    tidy,      \* the table fetch_omb_table_32 returned
    which,     \* pick_defense_series: its prefix
    sel,       \* pick_defense_series: Returned(series) or Raised
    df,        \* the combined table the Top-N block works on
    top_n,     \* the Top-N block: the slider's value
    topn,      \* the Top-N block: what it came to
    cache,     \* st.cache_data: for each cached function its entry, or NoEntry
    now,       \* the clock, in half hours
    upstream,  \* what the upstream of each cached function answers at present
    changed,   \* the functions whose upstream answer changed since the start
    log,       \* the calls of cached functions so far: hit or miss, when, outcome
    loads,     \* the calls of load_selected finished so far: when, outcome
    upload,    \* the uploaded deployments file
    dep        \* load_deployments_table: what it came to

adapterVars == <<call>>
selectorVars == <<tidy, which, sel, df, top_n, topn>>
cacheVars == <<cache, now, upstream, changed, log, loads>>
uploadVars == <<upload, dep>>
vars ==
    <<pc, sources, pos, frames, trace, result, call, tidy, which, sel, df, top_n, topn,
      cache, now, upstream, changed, log, loads, upload, dep>>

NoCall == [fn |-> "None", resp |-> <<>>, out |-> Returned(EmptyFrame)]
NoTopN == [raised |-> FALSE, shown |-> FALSE, rows |-> <<>>]

LoadIdle ==
    /\ sources = <<>> /\ pos = 1 /\ frames = <<>> /\ trace = <<>>
    /\ result = Returned(EmptyFrame)
AdapterIdle == call = NoCall
SelectorIdle ==
    /\ tidy = EmptyFrame /\ which = <<>> /\ sel = Returned(EmptyFrame)
    /\ df = EmptyFrame /\ top_n = 0 /\ topn = NoTopN
CacheIdle ==
    /\ cache = <<>> /\ now = 0 /\ upstream = <<>> /\ changed = {}
    /\ log = <<>> /\ loads = <<>>
NoDep == [raised |-> FALSE, country_col |-> 0, personnel_col |-> 0]
UploadIdle == upload = [kind |-> "none", cols |-> <<>>] /\ dep = NoDep

\* --- load_selected, run on a list of names ---
Init == LoadInit /\ AdapterIdle /\ SelectorIdle /\ CacheIdle /\ UploadIdle

Next ==
    \/ LoadSkip /\ UNCHANGED <<adapterVars, selectorVars, cacheVars, uploadVars>>
    \/ LoadCall /\ UNCHANGED <<adapterVars, selectorVars, cacheVars, uploadVars>>
    \/ LoadFinish /\ UNCHANGED <<adapterVars, selectorVars, cacheVars, uploadVars>>

Spec == Init /\ [][Next]_vars

\* --- each adapter, called on each upstream answer ---
AdapterFns == {REGISTRY[n] : n \in DOMAIN REGISTRY} \cup {"fetch_omb_table_32"}

AllResponses(fn) == IF fn = "fetch_omb_table_32" THEN OmbResponses ELSE Responses(fn)

CallAny(fn, resp) ==
    IF fn = "fetch_omb_table_32" THEN fetch_omb_table_32(resp) ELSE Call(fn, resp)

\* is resp the answer of an upstream that cannot be reached
NetworkFails(fn, resp) ==
    IF fn = "usaspending_dod_obligations"
    THEN \A i \in 1..NumFY : resp[i].kind = "fail"
    ELSE resp.kind = "neterr"

AdapterInit ==
    pc = "adapter" /\ LoadIdle /\ AdapterIdle /\ SelectorIdle /\ CacheIdle /\ UploadIdle

AdapterCall ==
    /\ pc = "adapter"
    /\ \E fn \in AdapterFns : \E resp \in AllResponses(fn) :
          call' = [fn |-> fn, resp |-> resp, out |-> CallAny(fn, resp)]
    /\ pc' = "called"
    /\ UNCHANGED <<sources, pos, frames, trace, result, selectorVars, cacheVars>>
    /\ UNCHANGED uploadVars

AdapterNext == AdapterCall

SpecAdapter == AdapterInit /\ [][AdapterNext]_vars

\* --- the derived series: the OMB prefix series and the UN Top-N block ---
\* the page passes 050 or 051; 052 is a call of the function with another prefix
Prefixes == {Code050, Code051, Code052}

SelectorInit ==
    /\ pc \in {"omb", "unpk"}
    /\ LoadIdle /\ AdapterIdle /\ CacheIdle /\ UploadIdle
    /\ tidy = EmptyFrame /\ which = <<>> /\ sel = Returned(EmptyFrame)
    /\ IF pc = "unpk" THEN df \in Dfs ELSE df = EmptyFrame
    /\ top_n = 0 /\ topn = NoTopN

\* lines 207-210: the table is fetched; a failure is kept in err
FetchOmb ==
    /\ pc = "omb"
    /\ \E resp \in OmbResponses :
          LET out == fetch_omb_table_32(resp)
          IN  /\ pc' = IF out.raised THEN "omb_err" ELSE "omb_ok"
              /\ tidy' = out.df
    /\ UNCHANGED <<sources, pos, frames, trace, result, call, which, sel, df, top_n, topn>>
    /\ UNCHANGED cacheVars
    /\ UNCHANGED uploadVars

\* line 216
PickSeries ==
    /\ pc = "omb_ok"
    /\ \E w \in Prefixes :
          /\ which' = w
          /\ sel' = pick_defense_series(tidy, w)
    /\ pc' = "picked"
    /\ UNCHANGED <<sources, pos, frames, trace, result, call, tidy, df, top_n, topn>>
    /\ UNCHANGED cacheVars
    /\ UNCHANGED uploadVars

\* lines 94-103
TopN ==
    /\ pc = "unpk"
    /\ \E n \in SliderMin..SliderMax :
          /\ top_n' = n
          /\ topn' \in TopNBlock(df, n)
    /\ pc' = "unpk_done"
    /\ UNCHANGED <<sources, pos, frames, trace, result, call, tidy, which, sel, df>>
    /\ UNCHANGED cacheVars
    /\ UNCHANGED uploadVars

SelectorNext == FetchOmb \/ PickSeries \/ TopN

SpecSelector == SelectorInit /\ [][SelectorNext]_vars

(* ------------------------------------------------------------------ *)
(* st.cache_data and the renders of the page                            *)
(* ------------------------------------------------------------------ *)
\* The clock counts half hours.  data_sources.py line 11: ttl = 60 * 60 s;
\* app_readiness_dashboard.py line 135: ttl = 24 * 3600 s.
CacheTtl == 2
OmbCacheTtl == 48

Ttl(fn) == IF fn = "fetch_omb_table_32" THEN OmbCacheTtl ELSE CacheTtl

\* The selections the page is rendered with: an adapter built on the World
\* Bank helper and the UN adapter, a name REGISTRY does not know, a name twice.
RenderSelections ==
    { <<>>,
      <<"UN Peacekeeping: contributors">>,
      <<"World Bank: mil exp %GDP", "UN Peacekeeping: contributors">>,
      <<"World Bank: mil exp %GDP", "unknown-name", "World Bank: mil exp %GDP">> }

\* the cached functions a render of the page calls
RenderFns ==
    { "wb_milex_percent_gdp", "unpk_troop_contributors", "fetch_omb_table_32" }

\* the upstream answers the renders are run against: unreachable, rows, and
\* for the World Bank a record the adapter raises on
RenderSamples(fn) ==
    CASE fn = "wb_milex_percent_gdp" ->
            { [kind |-> "neterr", recs |-> <<>>],
              [kind |-> "ok", recs |-> << [value |-> Num(1), date |-> Num(2019), country |-> Text(1)],
                                          [value |-> Num(2), date |-> Num(2020), country |-> Text(2)] >>],
              [kind |-> "ok", recs |-> << [value |-> Num(1), date |-> Num(2019), country |-> Text(1)],
                                          [value |-> Num(1), date |-> Text(0), country |-> Text(1)] >>] }
      [] fn = "unpk_troop_contributors" ->
            { [kind |-> "neterr", cols |-> <<>>, rows |-> <<>>],
              [kind |-> "ok", cols |-> <<"Country", "Year", "Troops">>,
               rows |-> << <<Text(1), Num(2020), Num(1)>>, <<Text(1), Num(2020), Num(2)>> >>] }
      [] fn = "fetch_omb_table_32" ->
            { [kind |-> "neterr", sheet |-> <<>>],
              [kind |-> "ok",
               sheet |-> << [c0 |-> HeaderLabel, ys |-> <<Num(2019), Num(2020)>>],
                            [c0 |-> <<"0", "5", "0", " ", "N">>, ys |-> <<Num(100), Num(50)>>] >>] }

\* the states the upstreams can be in
Upstreams ==
    { [fn \in RenderFns |->
          CASE fn = "wb_milex_percent_gdp" -> w
            [] fn = "unpk_troop_contributors" -> u
            [] fn = "fetch_omb_table_32" -> b] :
      w \in RenderSamples("wb_milex_percent_gdp"),
      u \in RenderSamples("unpk_troop_contributors"),
      b \in RenderSamples("fetch_omb_table_32") }

NoEntry == [out |-> Returned(EmptyFrame), at |-> -1]

\* does the cache hold an entry of fn that has not expired
Fresh(fn) == cache[fn].at >= 0 /\ now < cache[fn].at + Ttl(fn)

\* the cache after a call of fn that ran its body at a time the cache kept too
\* an outcome that raised
StoreAlways(fn, out) == [cache EXCEPT ![fn] = [out |-> out, at |-> now]]

\* the cache after a call of fn that ran its body: a returned value is stored
\* with the time of the call, an exception stores nothing
Store(fn, out) ==
    IF out.raised THEN [cache EXCEPT ![fn] = NoEntry]
    ELSE [cache EXCEPT ![fn] = [out |-> out, at |-> now]]

\* what a call of the cached function fn comes to
CachedOutcome(fn) == IF Fresh(fn) THEN cache[fn].out ELSE CallAny(fn, upstream[fn])

\* the entry of log for a call of fn
LogEntry(fn) ==
    [fn |-> fn, kind |-> IF Fresh(fn) THEN "hit" ELSE "miss", at |-> now,
     out |-> CachedOutcome(fn), up |-> upstream[fn]]

\* the cache after a call of fn
CacheAfter(fn) == IF Fresh(fn) THEN cache ELSE Store(fn, CachedOutcome(fn))

CacheInit ==
    /\ pc = "loop"
    /\ sources \in RenderSelections
    /\ pos = 1 /\ frames = <<>> /\ trace = <<>> /\ result = Returned(EmptyFrame)
    /\ AdapterIdle /\ SelectorIdle /\ UploadIdle
    /\ cache = [fn \in RenderFns |-> NoEntry]
    /\ now = 0
    /\ upstream \in Upstreams
    /\ changed = {}
    /\ log = <<>> /\ loads = <<>>

\* load_selected, one turn of the loop on a name REGISTRY does not know
RenderSkip == LoadSkip /\ UNCHANGED <<adapterVars, selectorVars, cacheVars, uploadVars>>

\* load_selected, one turn of the loop on a known name: the cached adapter is
\* called
RenderCall ==
    /\ pc = "loop" /\ pos <= Len(sources)
    /\ RegistryGet(sources[pos]) # "None"
    /\ LET fn == RegistryGet(sources[pos])
           out == CachedOutcome(fn)
       IN  /\ frames' = AppendOutcome(frames, out)
           /\ trace' = Append(trace, [name |-> sources[pos], out |-> out])
           /\ log' = Append(log, LogEntry(fn))
           /\ cache' = CacheAfter(fn)
    /\ pos' = pos + 1
    /\ UNCHANGED <<pc, sources, result, adapterVars, selectorVars,
                   now, upstream, changed, loads>>
    /\ UNCHANGED uploadVars

\* load_selected after its loop; the page goes on from line 45
RenderLoaded ==
    /\ pc = "loop" /\ pos > Len(sources)
    /\ result' = LoadResult(frames)
    /\ loads' = Append(loads, [at |-> now, result |-> LoadResult(frames),
                               log |-> Len(log), changed |-> changed])
    /\ pc' = "page"
    /\ UNCHANGED <<sources, pos, frames, trace, adapterVars, selectorVars,
                   cache, now, upstream, changed, log>>
    /\ UNCHANGED uploadVars

\* does the script stop on an exception before it comes to line 207
PageStopsEarly ==
    \/ result.raised
    \/ \E o \in TopNBlock(result.df, SliderMin) : o.raised

\* the script ends on an exception of load_selected or of the Top-N block
PageStops ==
    /\ pc = "page" /\ PageStopsEarly
    /\ pc' = "rendered"
    /\ UNCHANGED <<sources, pos, frames, trace, result, adapterVars, selectorVars, cacheVars>>
    /\ UNCHANGED uploadVars

\* lines 205-210: the cached fetch_omb_table_32 is called inside try/except
PageOmb ==
    /\ pc = "page" /\ ~PageStopsEarly
    /\ tidy' = CachedOutcome("fetch_omb_table_32").df
    /\ log' = Append(log, LogEntry("fetch_omb_table_32"))
    /\ cache' = CacheAfter("fetch_omb_table_32")
    /\ pc' = "rendered"
    /\ UNCHANGED <<sources, pos, frames, trace, result, call, which, sel, df, top_n, topn,
                   now, upstream, changed, loads>>
    /\ UNCHANGED uploadVars

\* A render is short next to half an hour: the clock and the upstreams move
\* between two renders.
BetweenRenders == pc = "rendered" /\ Len(loads) < MaxRenders

\* the script runs again with the same selection
Rerun ==
    /\ BetweenRenders
    /\ pc' = "loop" /\ pos' = 1 /\ frames' = <<>> /\ trace' = <<>>
    /\ result' = Returned(EmptyFrame)
    /\ tidy' = EmptyFrame
    /\ UNCHANGED <<sources, call, which, sel, df, top_n, topn, cacheVars>>
    /\ UNCHANGED uploadVars

\* half an hour passes
Tick ==
    /\ BetweenRenders
    /\ now < MaxClock
    /\ now' = now + 1
    /\ UNCHANGED <<pc, sources, pos, frames, trace, result, adapterVars, selectorVars,
                   cache, upstream, changed, log, loads>>
    /\ UNCHANGED uploadVars

\* the upstream of a cached function starts to answer something else
UpstreamChange ==
    /\ BetweenRenders
    /\ \E fn \in RenderFns : \E resp \in RenderSamples(fn) \ {upstream[fn]} :
          /\ upstream' = [upstream EXCEPT ![fn] = resp]
          /\ changed' = changed \cup {fn}
    /\ UNCHANGED <<pc, sources, pos, frames, trace, result, adapterVars, selectorVars,
                   cache, now, log, loads>>
    /\ UNCHANGED uploadVars

CacheNext ==
    \/ RenderSkip \/ RenderCall \/ RenderLoaded
    \/ PageStops \/ PageOmb \/ Rerun
    \/ Tick \/ UpstreamChange

SpecCache == CacheInit /\ [][CacheNext]_vars

(* ------------------------------------------------------------------ *)
(* The deployments upload: load_deployments_table                       *)
(* ------------------------------------------------------------------ *)
\* a header cell that holds the number 2020: read_excel makes it the int 2020,
\* read_csv the string "2020"
IntHeader == "2020"

\* the header cells of the modelled files
DepHeaders ==
    { "Country", "COUNTRY", "Location", "duty location", "Country/Territory",
      "Total", "Year", IntHeader }

\* a column of the file: its header, and whether pandas read it as numbers
DepCols == [name : DepHeaders, numeric : BOOLEAN]

\* the files: a CSV file or a workbook; pandas gives equal headers distinct
\* names, so no name comes twice
Uploads ==
    { [kind |-> k, cols |-> cs] :
        k \in {"csv", "excel"},
        cs \in { c \in SeqUpTo(DepCols, MaxCols) :
                   \A i, j \in 1..Len(c) : i # j => c[i].name # c[j].name } }

\* line 280: the candidate names, in the order they are tried
CountryCandidates == <<"country", "location", "country/territory", "duty location">>

DepRaised == [raised |-> TRUE, country_col |-> 0, personnel_col |-> 0]

\* Lines 268-302, as far as the choice of the two columns: the positions of
\* the country column and of the personnel column, or raised
load_deployments_table(file) ==
    LET cols == [i \in 1..Len(file.cols) |-> file.cols[i].name]
    IN  IF cols = <<>> THEN DepRaised                 \* EmptyDataError, IndexError
        ELSE IF file.kind = "excel" /\ \E i \in 1..Len(cols) : cols[i] = IntHeader
        THEN DepRaised                                \* (2020).lower(): AttributeError
        ELSE
        LET matches == { k \in 1..Len(CountryCandidates) :
                           ColsGet(cols, CountryCandidates[k]) # 0 }
            country_col ==
                IF matches = {} THEN 1
                ELSE ColsGet(cols, CountryCandidates[Min(matches)])
            numeric == { i \in 1..Len(cols) : i # country_col /\ file.cols[i].numeric }
            personnel_col == IF numeric = {} THEN Len(cols) ELSE Min(numeric)
        IN  [ raised |-> personnel_col = country_col,   \* dropna: KeyError 'country'
              country_col |-> country_col, personnel_col |-> personnel_col ]

UploadInit ==
    /\ pc = "upload"
    /\ LoadIdle /\ AdapterIdle /\ SelectorIdle /\ CacheIdle
    /\ upload \in Uploads
    /\ dep = NoDep

\* line 312: dep = load_deployments_table(up)
Upload ==
    /\ pc = "upload"
    /\ dep' = load_deployments_table(upload)
    /\ pc' = "uploaded"
    /\ UNCHANGED <<sources, pos, frames, trace, result, adapterVars, selectorVars,
                   cacheVars, upload>>

UploadNext == Upload

SpecUpload == UploadInit /\ [][UploadNext]_vars

(* ------------------------------------------------------------------ *)
(* Properties of load_selected                                          *)
(* ------------------------------------------------------------------ *)
CanonicalEmpty == [cols |-> CanonicalCols, rows |-> <<>>]

\* the names of sources that are keys of REGISTRY, in order
KnownNames == SelectSeq(sources, LAMBDA n : n \in DOMAIN REGISTRY)

\* no adapter produced a row: each call raised or returned no rows
NoAdapterProducedRows ==
    \A i \in 1..Len(trace) : trace[i].out.raised \/ trace[i].out.df.rows = <<>>

\* a row as load_selected hands it on: its year coerced
Handed(r) == [r EXCEPT !.year = ToNumeric(r.year)]

\* the rows with a value of the i-th call's outcome (none when it raised)
Contribution(i) ==
    IF trace[i].out.raised THEN <<>>
    ELSE LET rs == trace[i].out.df.rows
             keep == SelectSeq([j \in 1..Len(rs) |-> j], LAMBDA j : rs[j].value.k # "null")
         IN  [j \in 1..Len(keep) |-> Handed(rs[keep[j]])]

RECURSIVE Contributions(_)
\* the contributions of the calls i, i+1, ..., one after the other
Contributions(i) ==
    IF i > Len(trace) THEN <<>> ELSE Contribution(i) \o Contributions(i + 1)

\* C1: when no adapter produced any rows (names empty, or every selected
\* adapter failed or returned an empty result), load_selected returns, without
\* raising, an empty table with exactly the canonical columns.
C1_NoRowsGivesCanonicalEmpty ==
    (pc = "done" /\ NoAdapterProducedRows) => result = Returned(CanonicalEmpty)

\* C2: the returned table holds only rows with a value, every year of it is
\* null or an integer, and a year that cannot be coerced to an integer becomes
\* null instead of causing an error: whenever every frame collected has the
\* value column, load_selected returns such a table.
C2_YearNullOrInteger ==
    (pc = "done" /\ \A i \in 1..Len(frames) : "value" \in frames[i].cols)
    => /\ ~result.raised
       /\ \A i \in 1..Len(result.df.rows) :
             /\ result.df.rows[i].value.k # "null"
             /\ result.df.rows[i].year.k \in {"num", "null"}

\* C3: when a selected source fails (its adapter raises or returns an empty
\* result), load_selected does not raise and every row with a value of the
\* adapters that succeeded is in the returned table.
C3_FailureNeverBlocksOthers ==
    (pc = "done" /\ \E i \in 1..Len(trace) :
                       trace[i].out.raised \/ trace[i].out.df.rows = <<>>)
    => /\ ~result.raised
       /\ \A i \in 1..Len(trace) : \A j \in 1..Len(Contribution(i)) :
             \E k \in 1..Len(result.df.rows) : result.df.rows[k] = Contribution(i)[j]

\* C7: a list holding only names that are no keys of REGISTRY is treated as
\* the empty list (no adapter is called, nothing is raised, the empty table
\* with the canonical columns is returned), and in any list the adapters
\* called are exactly those of the known names, in order: the unknown names
\* are skipped and change nothing of what the known ones contribute.
C7_UnknownNamesSkipped ==
    pc = "done" =>
        /\ [i \in 1..Len(trace) |-> trace[i].name] = KnownNames
        /\ frames = [i \in 1..Len(SelectSeq(trace, LAMBDA c : ~c.out.raised)) |->
                        SelectSeq(trace, LAMBDA c : ~c.out.raised)[i].out.df]
        /\ (KnownNames = <<>>) => (trace = <<>> /\ result = Returned(CanonicalEmpty))

C7_Witness ==
    /\ pc = "done" /\ Len(sources) = 2
    /\ \A i \in 1..Len(sources) : sources[i] \notin DOMAIN REGISTRY
    /\ result = Returned(CanonicalEmpty)

\* C8: when at least one adapter produced rows, the table load_selected
\* returns is the concatenation, in the order of the names, of the rows with a
\* value of each adapter called, each adapter's rows in the adapter's order
\* (their year coerced as line 302 does); no row is dropped as a duplicate.
C8_ConcatenationInOrder ==
    (pc = "done" /\ ~result.raised /\ ~NoAdapterProducedRows) =>
        /\ result.df.rows = Contributions(1)
        /\ result.df.cols = CanonicalCols

C8_Witness ==
    /\ pc = "done" /\ ~result.raised
    /\ Len(sources) >= 2 /\ sources[1] = sources[2]
    /\ Len(result.df.rows) >= 4
    /\ result.df.rows[1] = result.df.rows[2]
    /\ result.df.rows[1] = result.df.rows[3]

(* ------------------------------------------------------------------ *)
(* Properties of the adapters                                           *)
(* ------------------------------------------------------------------ *)
\* C4: no adapter raises past its own boundary: whatever the upstream answers
\* (a network error, a non-2xx status, a malformed response or record, a
\* missing column), the call returns.
C4_AdaptersNeverRaise == pc = "called" => ~call.out.raised

\* C5: an adapter whose network fetch fails returns a table with no rows that
\* still has the canonical columns.
C5_NetworkFailureGivesCanonicalEmpty ==
    (pc = "called" /\ NetworkFails(call.fn, call.resp)) =>
        /\ ~call.out.raised
        /\ call.out.df.rows = <<>>
        /\ call.out.df.cols = CanonicalCols

\* C6: no row an adapter of data_sources.py returns has a null value.
C6_AdapterRowsHaveValue ==
    (pc = "called" /\ call.fn # "fetch_omb_table_32" /\ ~call.out.raised) =>
        \A i \in 1..Len(call.out.df.rows) : ~IsNull(call.out.df.rows[i].value)

(* ------------------------------------------------------------------ *)
(* Properties of the derived series                                     *)
(* ------------------------------------------------------------------ *)
\* the rows of tidy whose line starts with the prefix and a blank
RawMatches == {i \in 1..Len(tidy.rows) : StartsWith(tidy.rows[i].line, which \o <<" ">>)}

\* the rows of tidy whose line, the blanks around it stripped, starts with the
\* prefix and a blank
StrippedMatches ==
    {i \in 1..Len(tidy.rows) : StartsWith(Strip(tidy.rows[i].line), which \o <<" ">>)}

RECURSIVE TotalOutlays(_)
\* the outlays of the rows S of tidy added up (an empty cell adds nothing)
TotalOutlays(S) ==
    IF S = {} THEN 0
    ELSE LET i == CHOOSE j \in S : TRUE
         IN  (IF tidy.rows[i].outlays.k = "num" THEN tidy.rows[i].outlays.n ELSE 0)
             + TotalOutlays(S \ {i})

\* the series is the one of the rows M: a row for each of their years and for
\* nothing else, each holding the total of its year, in ascending year order
SeriesOf(M) ==
    LET rows == sel.df.rows
    IN  /\ \A i \in M : \E k \in 1..Len(rows) : rows[k].year = tidy.rows[i].year
        /\ \A k \in 1..Len(rows) :
              /\ \E i \in M : tidy.rows[i].year = rows[k].year
              /\ rows[k].outlays =
                    Num(TotalOutlays({i \in M : tidy.rows[i].year = rows[k].year}))
        /\ \A k \in 1..Len(rows) : \A l \in 1..Len(rows) :
              k < l => rows[k].year.n < rows[l].year.n

\* C9 as stated: the series pick_defense_series returns is the one of the rows
\* whose line starts with the prefix followed by a space: one row per year of
\* those rows, its outlays their sum for the year, rows of another prefix
\* adding nothing, ascending by year.
C9_SeriesOfLinesStartingWithPrefix ==
    (pc = "picked" /\ ~sel.raised) => SeriesOf(RawMatches)

\* C9 (amended): the same of the rows whose line, with the whitespace around
\* it stripped, starts with the prefix followed by a space.
C9_SeriesOfStrippedLines ==
    (pc = "picked" /\ ~sel.raised) => SeriesOf(StrippedMatches)

C9_Witness ==
    /\ pc = "picked" /\ ~sel.raised /\ which = Code051
    /\ \E i \in StrippedMatches : \E j \in StrippedMatches :
          /\ i # j /\ tidy.rows[i].year = tidy.rows[j].year
          /\ tidy.rows[i].outlays.k = "num" /\ tidy.rows[j].outlays.k = "num"
          /\ tidy.rows[i].line # Strip(tidy.rows[i].line)
    /\ \E i \in 1..Len(tidy.rows) : StartsWith(tidy.rows[i].line, Code052)
    /\ Len(sel.df.rows) = 2

\* the Top-N block ends in an empty series: nothing raised, nothing drawn
TopNEmpty == ~topn.raised /\ ~topn.shown /\ topn.rows = <<>>

NoUnpkRows == \A i \in 1..Len(df.rows) : df.rows[i].metric # UnpkMetric

\* C10 as stated: for any prefix, when the prefix matches no row the result of
\* pick_defense_series is an empty series and no error; and when the metric
\* filter of the Top-N block matches no row, the block ends in an empty series
\* without raising.
C10_NoMatchGivesEmptySeries ==
    /\ (pc = "picked" /\ StrippedMatches = {}) => (~sel.raised /\ sel.df.rows = <<>>)
    /\ (pc = "unpk_done" /\ NoUnpkRows) => TopNEmpty

\* C10 (amended): the same for the prefixes pick_defense_series accepts, 050
\* and 051.
C10_NoMatchGivesEmptySeriesFor050And051 ==
    /\ (pc = "picked" /\ which \in {Code050, Code051} /\ StrippedMatches = {})
          => (~sel.raised /\ sel.df.rows = <<>>)
    /\ (pc = "unpk_done" /\ NoUnpkRows) => TopNEmpty

C10_Witness ==
    /\ pc = "picked" /\ which = Code050
    /\ Len(tidy.rows) >= 2 /\ StrippedMatches = {}
    /\ ~sel.raised /\ sel.df.rows = <<>>

(* ------------------------------------------------------------------ *)
(* Properties of the Top-N block                                        *)
(* ------------------------------------------------------------------ *)
\* the table filtered to the metric, and its rows of the latest year
Unpk == SelectSeq(df.rows, LAMBDA r : r.metric = UnpkMetric)

UnpkYears == {Unpk[i].year.n : i \in {j \in 1..Len(Unpk) : ~IsNull(Unpk[j].year)}}

LatestUnpk ==
    IF UnpkYears = {} THEN <<>>
    ELSE SelectSeq(Unpk, LAMBDA r : r.year = Num(Max(UnpkYears)))

\* how many times the row r occurs in the sequence rs
Count(rs, r) == Cardinality({i \in 1..Len(rs) : rs[i] = r})

\* C11: for any table filtered to the metric 'Troops contributed to UN PKO' and
\* any N of the caller, the block comes to a result; the result holds only rows
\* of the maximum year present in the filtered table; it holds at most N rows,
\* all the latest-year rows when there are fewer than N; no latest-year row
\* left out has a larger value than a row kept; the rows kept are in ascending
\* order of value.
C11_TopNLatestYear ==
    (pc = "unpk_done" /\ Unpk # <<>>) =>
        /\ ~topn.raised
        /\ \A i \in 1..Len(topn.rows) :
              /\ UnpkYears # {}
              /\ topn.rows[i].year = Num(Max(UnpkYears))
              /\ Count(topn.rows, topn.rows[i]) <= Count(LatestUnpk, topn.rows[i])
        /\ Len(topn.rows) = IF top_n < Len(LatestUnpk) THEN top_n ELSE Len(LatestUnpk)
        /\ \A j \in 1..Len(LatestUnpk) : \A i \in 1..Len(topn.rows) :
              LatestUnpk[j].value.n > topn.rows[i].value.n
                  => Count(topn.rows, LatestUnpk[j]) = Count(LatestUnpk, LatestUnpk[j])
        /\ \A i \in 1..(Len(topn.rows) - 1) :
              topn.rows[i].value.n <= topn.rows[i + 1].value.n

(* ------------------------------------------------------------------ *)
(* Properties of the cache                                              *)
(* ------------------------------------------------------------------ *)
\* the adapters the selection names
SelectedFns == {RegistryGet(sources[i]) : i \in 1..Len(sources)} \ {"None"}

\* the entries of log written by the k-th call of load_selected
LoadLog(k) ==
    { i \in 1..loads[k].log :
        /\ log[i].fn # "fetch_omb_table_32"
        /\ k > 1 => i > loads[k - 1].log }

\* is the k-th call of load_selected a repeat of the first inside the cache
\* window, nothing having changed upstream
RepeatInWindow(k) ==
    /\ k > 1
    /\ loads[k].at < loads[1].at + CacheTtl
    /\ loads[k].changed \cap SelectedFns = {}

\* C12: a later load_selected with the same names, made before the entries of
\* the first call expire and with no change upstream, returns what the first
\* call returned, and the body of no cached adapter runs for it.
C12_RepeatInWindowIsIdempotent ==
    \A k \in 1..Len(loads) :
        RepeatInWindow(k) =>
            /\ loads[k].result = loads[1].result
            /\ \A i \in LoadLog(k) : log[i].kind = "hit"

\* the entries of log for the function of entry i that come after it
Later(i) == { j \in (i + 1)..Len(log) : log[j].fn = log[i].fn }

\* is j the first call of the function of entry i after it
NextCall(i, j) == j \in Later(i) /\ \A m \in Later(i) : j <= m

\* the calls of cached adapters that ran the body and could not reach the
\* upstream
FailedFetches ==
    { i \in 1..Len(log) :
        /\ log[i].fn # "fetch_omb_table_32"
        /\ log[i].kind = "miss"
        /\ NetworkFails(log[i].fn, log[i].up) }

\* the calls of fetch_omb_table_32 that ran the body and raised on a failed
\* fetch
FailedOmbFetches ==
    { i \in 1..Len(log) :
        /\ log[i].fn = "fetch_omb_table_32"
        /\ log[i].kind = "miss"
        /\ NetworkFails(log[i].fn, log[i].up) }

\* C14: a cached adapter turns a failed fetch into a returned empty table, and
\* that table is cached: a call of the adapter in a later render inside the
\* cache window is answered with zero rows without a fetch, whatever the
\* upstream answers by then, and the first call after the window fetches
\* again.  fetch_omb_table_32 raises on a failed fetch, nothing is stored, and
\* its next call fetches again.
C14_FailureIsCachedOmbFailureIsNot ==
    /\ \A i \in FailedFetches :
          /\ ~log[i].out.raised /\ log[i].out.df.rows = <<>>
          /\ \A j \in Later(i) :
                /\ log[j].at < log[i].at + CacheTtl
                      => (log[j].kind = "hit" /\ log[j].out.df.rows = <<>>)
                /\ (NextCall(i, j) /\ log[j].at >= log[i].at + CacheTtl)
                      => log[j].kind = "miss"
    /\ \A i \in FailedOmbFetches :
          /\ log[i].out.raised
          /\ (Later(i) = {} => cache["fetch_omb_table_32"] = NoEntry)
          /\ \A j \in Later(i) : NextCall(i, j) => log[j].kind = "miss"

\* render 1 could not reach the World Bank nor the OMB site; render 2, inside
\* the window, with the World Bank reachable again, got the cached empty table
\* and fetched the OMB sheet again
C14_Witness ==
    \E i \in FailedFetches : \E k \in FailedOmbFetches :
        /\ i < k
        /\ \E j \in Later(i) :
              /\ j > k
              /\ log[j].at > log[i].at /\ log[j].at < log[i].at + CacheTtl
              /\ log[j].up.kind = "ok"
              /\ log[j].kind = "hit" /\ log[j].out.df.rows = <<>>
        /\ \E l \in Later(k) : log[l].kind = "miss" /\ log[l].at < log[k].at + OmbCacheTtl

(* ------------------------------------------------------------------ *)
(* Properties of the deployments upload                                 *)
(* ------------------------------------------------------------------ *)
UploadNames == [i \in 1..Len(upload.cols) |-> upload.cols[i].name]

\* the candidate names that match a column of the file without regard to case
MatchingCandidates ==
    { k \in 1..Len(CountryCandidates) :
        \E i \in 1..Len(upload.cols) : Lower(UploadNames[i]) = CountryCandidates[k] }

\* the numeric columns of the file apart from the country column
NumericColumns ==
    { i \in 1..Len(upload.cols) : upload.cols[i].numeric /\ i # dep.country_col }

\* C13: when load_deployments_table has chosen its columns, the country column
\* is a column whose name is, without regard to case, the first candidate of
\* (country, location, country/territory, duty location) that matches a
\* column, and the first column when no candidate matches; the personnel
\* column is the last numeric column of the file.
C13_DynamicColumnDetection ==
    (pc = "uploaded" /\ dep.country_col # 0) =>
        /\ IF MatchingCandidates = {} THEN dep.country_col = 1
           ELSE Lower(UploadNames[dep.country_col])
                    = CountryCandidates[Min(MatchingCandidates)]
        /\ NumericColumns # {} => dep.personnel_col = Max(NumericColumns)

====
